---- MODULE Spec2Model ----
(***************************************************************************)
(* terminal-player: the transcode / cache / playback pipeline of           *)
(* src/tplayer/player.py together with the Hyper terminal adopter of       *)
(* src/tplayer/adopters.py.                                                *)
(*                                                                         *)
(* One Player object is built per play session (cli.py); sessions run one  *)
(* after another and share the file system: the video files, ./cache       *)
(* (cache.json, the pickled frame blobs, the extracted audio) and the      *)
(* ~/.hyper.js configuration.  A KeyboardInterrupt may arrive at any step  *)
(* of Player._play, the body of the try block of Player.play; an external  *)
(* call may raise at the steps listed in ErrorPoints.                      *)
(*                                                                         *)
(* Spec is the whole pipeline; SpecTranscode, SpecPlayback and SpecAdopter *)
(* run convert_to_ansi, the playback loop and the adopter on larger        *)
(* inputs; SpecConcurrent adds a second session of another process.        *)
(***************************************************************************)
EXTENDS Integers, Sequences, FiniteSets, TLC

(***************************************************************************)
(* Bounds and input sets.                                                  *)
(***************************************************************************)
MaxSessions == 2        \* play sessions run one after another
MaxRender == 3          \* longest render time of one frame, in ticks
MaxFrames == 90         \* frames of the videos of SpecTranscode
MaxAdopterCalls == 4    \* calls made on one adopter in SpecAdopter
MaxPlayFrames == 5      \* frames of the videos of SpecPlayback

TicksPerSecond == 2     \* the unit of time() and sleep(): SLEEP_PER_FRAME = 1 / fps
DefaultFontSize == 13   \* font_size: int = 13
LimbBits == 13          \* floats are held in limbs of 13 bits

Paths == {"./a.mp4", "./dir/b.mp4"}
FontArgs == {DefaultFontSize}
FpsArgs == {1, TicksPerSecond}

\* A video file's content: its identity (the bytes), CAP_PROP_FPS and the
\* number of frames VideoCapture can grab.
MainVideos ==
    { [id |-> 1, fps |-> 2, frames |-> 2],
      [id |-> 2, fps |-> 1, frames |-> 3] }
\* <<CAP_PROP_FPS, fps>>: the rates of SpecTranscode
TranscodeRates == {<<30, 2>>, <<30, 5>>, <<25, 5>>, <<24, 5>>, <<25, 25>>, <<50, 25>>}
TranscodeVideo(rate) == [id |-> 100 + rate, fps |-> rate, frames |-> MaxFrames]

(***************************************************************************)
(* Python float arithmetic.  index_in / fps_in * fps_out is evaluated in   *)
(* IEEE-754 binary64: the quotient is rounded to 53 significant bits, ties *)
(* to even, and so is the product.  A positive float is [int, frac, e],    *)
(* the value (int + frac / Limb^4) * 2^e, frac = <<l1, l2, l3, l4>> four   *)
(* limbs of LimbBits bits, most significant first; a float of FloatDiv has *)
(* int = 1, so 1 + 4 * 13 = 53 bits.  The operators cover operands below   *)
(* 2^13, which is every frame index and frame rate used here.              *)
(***************************************************************************)
Limb == 2 ^ LimbBits

RECURSIVE NormUp(_, _, _)
NormUp(n, d, e) ==
    IF n >= 2 * d THEN NormUp(n, 2 * d, e + 1) ELSE [n |-> n, d |-> d, e |-> e]

RECURSIVE NormDown(_, _, _)
NormDown(n, d, e) ==
    IF n < d THEN NormDown(2 * n, d, e - 1) ELSE [n |-> n, d |-> d, e |-> e]

RECURSIVE Log2(_)
Log2(n) == IF n < 2 THEN 0 ELSE 1 + Log2(n \div 2)

\* int.frac plus `inc` units of the last limb, carries propagated
AddUlp(int, frac, inc) ==
    LET v4 == frac[4] + inc
        v3 == frac[3] + v4 \div Limb
        v2 == frac[2] + v3 \div Limb
        v1 == frac[1] + v2 \div Limb
    IN [int |-> int + v1 \div Limb,
        frac |-> <<v1 % Limb, v2 % Limb, v3 % Limb, v4 % Limb>>]

\* int.frac rounded to 53 significant bits, ties to even.  `more` tells what
\* follows frac: 0 nothing, 1 exactly half a unit of the last limb, 2 more
Round53(int, frac, more) ==
    LET g    == Log2(int)
        unit == 2 ^ g
        low  == frac[4] % unit
        kept == <<frac[1], frac[2], frac[3], frac[4] - low>>
        odd  == IF g = LimbBits THEN frac[3] % 2 = 1
                ELSE (frac[4] \div unit) % 2 = 1
        up   == IF g = 0
                THEN more = 2 \/ (more = 1 /\ frac[4] % 2 = 1)
                ELSE \/ 2 * low > unit
                     \/ 2 * low = unit /\ (more > 0 \/ odd)
    IN IF up THEN AddUlp(int, kept, unit) ELSE [int |-> int, frac |-> kept]

\* a / b for integers a, b >= 1 held as floats
FloatDiv(a, b) ==
    LET nz == IF a >= b THEN NormUp(a, b, 0) ELSE NormDown(a, b, 0)
        r0 == nz.n - nz.d
        l1 == (r0 * Limb) \div nz.d
        r1 == (r0 * Limb) % nz.d
        l2 == (r1 * Limb) \div nz.d
        r2 == (r1 * Limb) % nz.d
        l3 == (r2 * Limb) \div nz.d
        r3 == (r2 * Limb) % nz.d
        l4 == (r3 * Limb) \div nz.d
        r4 == (r3 * Limb) % nz.d
        more == IF 2 * r4 > nz.d THEN 2 ELSE IF 2 * r4 = nz.d THEN 1 ELSE 0
        q  == Round53(1, <<l1, l2, l3, l4>>, more)
    IN IF q.int = 2
       THEN [int |-> 1, frac |-> <<0, 0, 0, 0>>, e |-> nz.e + 1]
       ELSE [int |-> 1, frac |-> q.frac, e |-> nz.e]

\* x * c for a float x and an integer c >= 1 held as a float
FloatMul(x, c) ==
    LET v4 == x.frac[4] * c
        v3 == x.frac[3] * c + v4 \div Limb
        v2 == x.frac[2] * c + v3 \div Limb
        v1 == x.frac[1] * c + v2 \div Limb
        t  == x.int * c + v1 \div Limb
        p  == Round53(t, <<v1 % Limb, v2 % Limb, v3 % Limb, v4 % Limb>>, 0)
    IN [int |-> p.int, frac |-> p.frac, e |-> x.e]

\* int(x): truncation
FloatToInt(x) ==
    IF x.e < 0 THEN x.int \div (2 ^ (0 - x.e))
    ELSE x.int * (2 ^ x.e) + x.frac[1] \div (2 ^ (LimbBits - x.e))

\* out_due = int(index_in / fps_in * fps_out)
OutDue(i, fin, fout) ==
    IF i = 0 THEN 0 ELSE FloatToInt(FloatMul(FloatDiv(i, fin), fout))

(***************************************************************************)
(* State.                                                                  *)
(***************************************************************************)
VARIABLES
    \* the file system and the terminal
    fileContent,     \* video path -> content of the video file
    cacheFile,       \* ./cache/cache.json: [state, entries]
    blobs,           \* ./cache/<uuid>.pickle: uuid -> pickled frame list
    audioFiles,      \* ./cache/<uuid>.mp3 files written
    hyperFile,       \* ~/.hyper.js: the text of the configuration
    nextUuid,        \* uuid4(): every call returns a fresh identifier
    sessions,        \* play sessions started so far
    \* the Player of the current session and the arguments of play()
    pc, video_path, fps, font_size, config, backup_config, terminal_columns,
    config_saves,    \* save_config calls of the session's adopter
    \* locals of _play
    md5, lookup, video, audio_path,
    \* locals of convert_to_ansi
    index_in, index_out, result, convStop,
    \* locals of save_cache
    caches, uuid,
    \* the playback loop
    frame_idx, delta, start_time, now, slept, shown, dropped,
    overrun,         \* the sum of the abs(est) of the frames shown late
    \* how play() ended, and the calls made during the session
    exit, errorAt, calls,
    \* a second play session, of another process
    peer

fsVars == <<fileContent, cacheFile, blobs, audioFiles, hyperFile, nextUuid, sessions>>
playerVars ==
    <<video_path, fps, font_size, config, backup_config, terminal_columns, config_saves>>
playVars == <<md5, lookup, video, audio_path>>
convVars == <<index_in, index_out, result, convStop>>
saveVars == <<caches, uuid>>
loopVars == <<frame_idx, delta, start_time, now, slept, shown, dropped, overrun>>
endVars == <<exit, errorAt, calls>>
vars == <<fsVars, playerVars, playVars, convVars, saveVars, loopVars, endVars, pc, peer>>

NoCalls ==
    [restore |-> 0, adjust |-> 0, convert |-> 0, extract |-> 0,
     save |-> 0, playsound |-> 0]

Called(what) == [calls EXCEPT ![what] = @ + 1]

Missing == [state |-> "missing", entries |-> <<>>]

\* get_md5: the digest of the file's bytes
Md5(content) == <<"md5", content.id>>

\* video_path.split("/")[-1].split(".", 1)[0]
VideoName(path) ==
    CASE path = "./a.mp4" -> "a"
      [] path = "./dir/b.mp4" -> "b"
      [] OTHER -> "video"

\* get_terminal_size().columns under the font size in effect
TerminalColumns(font) == (DefaultFontSize * DefaultFontSize) \div font

\* image_to_ansi of input frame i of the video
image_to_ansi(content, i, columns) ==
    [src |-> content.id, index |-> i, width |-> columns]

(***************************************************************************)
(* adopters.py: HyperAdopter.  The text of ~/.hyper.js is held by what the  *)
(* adopter reads of it: the digits of the fontSize entry and the text      *)
(* between "fontSize:" and the digits, `fontSize: 12,` or `fontSize:12,`.  *)
(***************************************************************************)
Separators == {" ", ""}

HyperConfig(size, sep) == [size |-> size, sep |-> sep]

\* the second session before it starts
NoPeer ==
    [pc |-> "idle", path |-> "", md5 |-> <<>>, lookup |-> "none", video |-> <<>>,
     audio_path |-> 0, caches |-> <<>>, uuid |-> 0, exit |-> "none",
     backup_config |-> HyperConfig(0, " ")]

\* lines 83-84: int(config[config.find("fontSize"):].split(":", 1)[-1]
\* .split(",", 1)[0].strip()); strip() drops the whitespace before the digits
current_font_size(text) == text.size

\* lines 87-88: config.replace(f"fontSize: {old}", f"fontSize: {new}"), which
\* matches only the entry written with exactly one space
replace_font_size(text, old, new) ==
    IF text.sep = " " /\ text.size = old THEN [text EXCEPT !.size = new] ELSE text

adjust_terminal_font_size(size) ==
    IF current_font_size(config) = size
    THEN UNCHANGED <<config, hyperFile, config_saves>>
    ELSE /\ config' = replace_font_size(config, current_font_size(config), size)
         /\ hyperFile' = config'
         /\ config_saves' = config_saves + 1

\* a restore that saves the adopter's current text, not the backup
restore_current_config ==
    /\ config' = config
    /\ hyperFile' = config
    /\ config_saves' = config_saves + 1

restore_terminal_font_size ==
    /\ config' = backup_config
    /\ hyperFile' = backup_config
    /\ config_saves' = config_saves + 1

(***************************************************************************)
(* player.py: the cache store.                                             *)
(***************************************************************************)
\* json.loads(f.read()) of cache.json
JsonLoads(file) ==
    IF file.state = "json" THEN [ok |-> TRUE, value |-> file.entries]
    ELSE [ok |-> FALSE, value |-> <<>>]

\* a scan that reads a key no entry has: cache.get(...) is None for every entry
ScanCachesWrongKey(entries, k, digest) == 0

\* for cache in caches: if cache.get("md5", None) == md5: return ...
RECURSIVE ScanCaches(_, _, _)
ScanCaches(entries, k, digest) ==
    IF k > Len(entries) THEN 0
    ELSE IF entries[k].md5 = digest THEN k
         ELSE ScanCaches(entries, k + 1, digest)

\* a lookup keyed by the video's name instead of its checksum
load_cache_by_name(digest, path) ==
    IF cacheFile.state # "json" THEN [kind |-> "None"]
    ELSE LET named == {k \in 1..Len(cacheFile.entries) :
                          cacheFile.entries[k].name = VideoName(path)}
             k == CHOOSE j \in named : \A i \in named : j <= i
         IN IF named = {} THEN [kind |-> "None"]
            ELSE [kind |-> "tuple",
                  video |-> blobs[cacheFile.entries[k].video],
                  audio_path |-> cacheFile.entries[k].audio_path]

\* load_cache(md5): what the call returns for the session of video `path`
load_cache(digest, path) ==
    IF cacheFile.state = "missing" THEN [kind |-> "None"]
    ELSE LET loaded == JsonLoads(cacheFile)
             k == ScanCaches(loaded.value, 1, digest)
         IN IF ~loaded.ok THEN [kind |-> "raise"]
            ELSE IF k = 0 THEN [kind |-> "None"]
            ELSE IF loaded.value[k].video \notin DOMAIN blobs
                 THEN [kind |-> "raise"]
                 ELSE [kind |-> "tuple",
                       video |-> blobs[loaded.value[k].video],
                       audio_path |-> loaded.value[k].audio_path]

\* an entry keyed by the digest of no bytes: the file is never read
CacheEntryEmptyDigest(name, vid_path, blob, audio) ==
    [name |-> name, video |-> blob, audio_path |-> audio,
     md5 |-> <<"md5", 0>>]

\* the entry save_cache appends
CacheEntry(name, vid_path, blob, audio) ==
    [name |-> name, video |-> blob, audio_path |-> audio,
     md5 |-> Md5(fileContent[vid_path])]

\* a store that starts from an empty list instead of the index on disk
ReadCachesFresh(file) == [ok |-> TRUE, value |-> <<>>]

\* save_cache, lines 93-97: the index as read before the append
ReadCaches(file) ==
    IF file.state = "missing" THEN [ok |-> TRUE, value |-> <<>>]
    ELSE JsonLoads(file)

(***************************************************************************)
(* player.py: Player.play, Player._play and Player.shutdown.               *)
(***************************************************************************)
\* SLEEP_PER_FRAME = 1 / fps, in ticks
SLEEP_PER_FRAME == TicksPerSecond \div fps

\* the steps of _play, the body of the try block of play
PlayPcs ==
    {"load_cache", "miss_adjust", "miss_columns", "miss_restore", "convert",
     "grab", "extract_audio", "save_read", "save_blob", "save_open",
     "save_write", "adjust", "playsound", "frame"}

\* the steps at which a call out of the player may raise
ErrorPoints ==
    {"load_cache", "miss_columns", "grab", "extract_audio", "save_read",
     "save_blob", "save_open", "save_write", "playsound", "frame"}

\* shutdown() that leaves the font size as it is
shutdown_keeps_font(how) ==
    /\ UNCHANGED <<config, hyperFile, config_saves, calls>>
    /\ exit' = how
    /\ pc' = "done"

\* shutdown(): restore the font size, print "Exiting..."
shutdown(how) ==
    /\ restore_terminal_font_size
    /\ calls' = Called("restore")
    /\ exit' = how
    /\ pc' = "done"

\* the state of a freshly built Player (Player.__init__, HyperAdopter.__init__)
\* about to run play(f, fs) on the video at path p; the adopter loads the
\* configuration text into config and backup_config
NewPlayer(p, f, fs, text) ==
    [video_path |-> p,
     fps |-> f,
     font_size |-> fs,
     config |-> text,
     backup_config |-> text,
     terminal_columns |-> 0,
     config_saves |-> 0,
     md5 |-> <<>>,
     lookup |-> "none",
     video |-> <<>>,
     audio_path |-> 0,
     index_in |-> -1,
     index_out |-> -1,
     result |-> <<>>,
     convStop |-> "none",
     caches |-> <<>>,
     uuid |-> 0,
     frame_idx |-> 0,
     delta |-> 0,
     start_time |-> 0,
     now |-> 0,
     slept |-> 0,
     shown |-> <<>>,
     dropped |-> 0,
     overrun |-> 0,
     exit |-> "none",
     errorAt |-> "none",
     calls |-> NoCalls]

\* the variables of the session hold the fields of n
PlayerIs(n) ==
    /\ video_path = n.video_path
    /\ fps = n.fps
    /\ font_size = n.font_size
    /\ config = n.config
    /\ backup_config = n.backup_config
    /\ terminal_columns = n.terminal_columns
    /\ config_saves = n.config_saves
    /\ md5 = n.md5
    /\ lookup = n.lookup
    /\ video = n.video
    /\ audio_path = n.audio_path
    /\ index_in = n.index_in
    /\ index_out = n.index_out
    /\ result = n.result
    /\ convStop = n.convStop
    /\ caches = n.caches
    /\ uuid = n.uuid
    /\ frame_idx = n.frame_idx
    /\ delta = n.delta
    /\ start_time = n.start_time
    /\ now = n.now
    /\ slept = n.slept
    /\ shown = n.shown
    /\ dropped = n.dropped
    /\ overrun = n.overrun
    /\ exit = n.exit
    /\ errorAt = n.errorAt
    /\ calls = n.calls

PlayerBecomes(n) ==
    /\ video_path' = n.video_path
    /\ fps' = n.fps
    /\ font_size' = n.font_size
    /\ config' = n.config
    /\ backup_config' = n.backup_config
    /\ terminal_columns' = n.terminal_columns
    /\ config_saves' = n.config_saves
    /\ md5' = n.md5
    /\ lookup' = n.lookup
    /\ video' = n.video
    /\ audio_path' = n.audio_path
    /\ index_in' = n.index_in
    /\ index_out' = n.index_out
    /\ result' = n.result
    /\ convStop' = n.convStop
    /\ caches' = n.caches
    /\ uuid' = n.uuid
    /\ frame_idx' = n.frame_idx
    /\ delta' = n.delta
    /\ start_time' = n.start_time
    /\ now' = n.now
    /\ slept' = n.slept
    /\ shown' = n.shown
    /\ dropped' = n.dropped
    /\ overrun' = n.overrun
    /\ exit' = n.exit
    /\ errorAt' = n.errorAt
    /\ calls' = n.calls

Init ==
    /\ fileContent \in [Paths -> MainVideos]
    /\ cacheFile = Missing
    /\ blobs = <<>>
    /\ audioFiles = {}
    /\ hyperFile = HyperConfig(DefaultFontSize - 1, " ")
    /\ nextUuid = 1
    /\ sessions = 0
    /\ pc = "idle"
    /\ peer = NoPeer
    /\ PlayerIs(NewPlayer("./a.mp4", TicksPerSecond, DefaultFontSize, hyperFile))

\* cli.py: Player(source) and play(f, fs)
StartSession(p, f, fs) ==
    /\ UNCHANGED peer
    /\ pc \in {"idle", "done"}
    /\ sessions < MaxSessions
    /\ sessions' = sessions + 1
    /\ pc' = "load_cache"
    /\ UNCHANGED <<fileContent, cacheFile, blobs, audioFiles, hyperFile, nextUuid>>
    /\ PlayerBecomes(NewPlayer(p, f, fs, hyperFile))

\* between sessions a video file is replaced by another one
WriteVideo(p, v) ==
    /\ UNCHANGED peer
    /\ pc \in {"idle", "done"}
    /\ sessions < MaxSessions
    /\ fileContent[p] # v
    /\ fileContent' = [fileContent EXCEPT ![p] = v]
    /\ UNCHANGED <<cacheFile, blobs, audioFiles, hyperFile, nextUuid, sessions>>
    /\ UNCHANGED <<playerVars, playVars, convVars, saveVars, loopVars, endVars, pc>>

\* lines 170-173: the lookup, a hit or the TypeError of unpacking None
LoadCache ==
    /\ UNCHANGED peer
    /\ pc = "load_cache"
    /\ md5' = Md5(fileContent[video_path])
    /\ LET r == load_cache(md5', video_path) IN
         CASE r.kind = "tuple" ->
                /\ video' = r.video
                /\ audio_path' = r.audio_path
                /\ lookup' = "hit"
                /\ pc' = "adjust"
                /\ UNCHANGED <<exit, errorAt>>
           [] r.kind = "None" ->
                /\ lookup' = "miss"
                /\ pc' = "miss_adjust"
                /\ UNCHANGED <<video, audio_path, exit, errorAt>>
           [] OTHER ->
                /\ exit' = "error"
                /\ errorAt' = "load_cache"
                /\ pc' = "done"
                /\ UNCHANGED <<video, audio_path, lookup>>
    /\ UNCHANGED <<fsVars, playerVars, convVars, saveVars, loopVars, calls>>

\* line 174
MissAdjust ==
    /\ UNCHANGED peer
    /\ pc = "miss_adjust"
    /\ adjust_terminal_font_size(font_size)
    /\ calls' = Called("adjust")
    /\ pc' = "miss_columns"
    /\ UNCHANGED <<fileContent, cacheFile, blobs, audioFiles, nextUuid, sessions>>
    /\ UNCHANGED <<video_path, fps, font_size, backup_config, terminal_columns>>
    /\ UNCHANGED <<playVars, convVars, saveVars, loopVars, exit, errorAt>>

\* lines 175-176
MissColumns ==
    /\ UNCHANGED peer
    /\ pc = "miss_columns"
    /\ terminal_columns' = TerminalColumns(current_font_size(hyperFile))
    /\ pc' = "miss_restore"
    /\ UNCHANGED <<fsVars, video_path, fps, font_size, config, backup_config>>
    /\ UNCHANGED config_saves
    /\ UNCHANGED <<playVars, convVars, saveVars, loopVars, endVars>>

\* line 177
MissRestore ==
    /\ UNCHANGED peer
    /\ pc = "miss_restore"
    /\ restore_terminal_font_size
    /\ calls' = Called("restore")
    /\ pc' = "convert"
    /\ UNCHANGED <<fileContent, cacheFile, blobs, audioFiles, nextUuid, sessions>>
    /\ UNCHANGED <<video_path, fps, font_size, backup_config, terminal_columns>>
    /\ UNCHANGED <<playVars, convVars, saveVars, loopVars, exit, errorAt>>

\* lines 118-126: the locals of convert_to_ansi
ConvertStart ==
    /\ UNCHANGED peer
    /\ pc = "convert"
    /\ index_in' = -1
    /\ index_out' = -1
    /\ result' = <<>>
    /\ calls' = Called("convert")
    /\ pc' = "grab"
    /\ UNCHANGED <<fsVars, playerVars, playVars, saveVars, loopVars>>
    /\ UNCHANGED <<convStop, exit, errorAt>>

\* break, return result, and line 178: video = self.convert_to_ansi(fps)
ConvertBreak(why) ==
    /\ convStop' = why
    /\ video' = result
    /\ pc' = "extract_audio"
    /\ UNCHANGED <<index_out, result>>

\* lines 133-134: out_due > index_out
FrameDue(i, o, fin, fout) == OutDue(i, fin, fout) > o

\* the frames a run of convert_to_ansi without failures retains
RECURSIVE FullRun(_, _, _, _, _)
FullRun(content, fout, columns, i, acc) ==
    IF i >= content.frames THEN acc
    ELSE IF FrameDue(i, Len(acc) - 1, content.fps, fout)
         THEN FullRun(content, fout, columns, i + 1,
                      Append(acc, image_to_ansi(content, i, columns)))
         ELSE FullRun(content, fout, columns, i + 1, acc)

\* an iteration that goes on to the next frame when retrieve() fails
ConvertStepContinue(grabbed, retrieved) ==
    LET content == fileContent[video_path]
        i == index_in + 1
    IN IF ~grabbed
       THEN /\ ConvertBreak(IF i >= content.frames THEN "end" ELSE "grab")
            /\ UNCHANGED index_in
       ELSE /\ index_in' = i
            /\ IF FrameDue(i, index_out, content.fps, fps)
               THEN IF ~retrieved
                    THEN /\ convStop' = "retrieve"
                         /\ UNCHANGED <<index_out, result, video, pc>>
                    ELSE /\ index_out' = index_out + 1
                         /\ result' = Append(result,
                                image_to_ansi(content, i, terminal_columns))
                         /\ UNCHANGED <<convStop, video, pc>>
               ELSE UNCHANGED <<index_out, result, convStop, video, pc>>

\* lines 127-142: one iteration of the loop, grab() and retrieve() returning
\* `grabbed` and `retrieved`
ConvertStep(grabbed, retrieved) ==
    LET content == fileContent[video_path]
        i == index_in + 1
    IN IF ~grabbed
       THEN /\ ConvertBreak(IF i >= content.frames THEN "end" ELSE "grab")
            /\ UNCHANGED index_in
       ELSE /\ index_in' = i
            /\ IF FrameDue(i, index_out, content.fps, fps)
               THEN IF ~retrieved
                    THEN ConvertBreak("retrieve")
                    ELSE /\ index_out' = index_out + 1
                         /\ result' = Append(result,
                                image_to_ansi(content, i, terminal_columns))
                         /\ UNCHANGED <<convStop, video, pc>>
               ELSE UNCHANGED <<index_out, result, convStop, video, pc>>

\* grab() succeeds only while frames are left; it and retrieve() may fail
\* on any frame (decode error, truncated file)
GrabFrame ==
    /\ UNCHANGED peer
    /\ pc = "grab"
    /\ \E grabbed \in BOOLEAN, retrieved \in BOOLEAN :
         /\ grabbed => index_in + 1 < fileContent[video_path].frames
         /\ ConvertStep(grabbed, retrieved)
    /\ UNCHANGED <<fsVars, playerVars, saveVars, loopVars, endVars>>
    /\ UNCHANGED <<md5, lookup, audio_path>>

\* lines 179-180: audio_path = f"./cache/{uuid4()}.mp3"; extract_audio
ExtractAudio ==
    /\ UNCHANGED peer
    /\ pc = "extract_audio"
    /\ audio_path' = nextUuid
    /\ nextUuid' = nextUuid + 1
    /\ audioFiles' = audioFiles \cup {nextUuid}
    /\ calls' = Called("extract")
    /\ pc' = "save_read"
    /\ UNCHANGED <<fileContent, cacheFile, blobs, hyperFile, sessions>>
    /\ UNCHANGED <<playerVars, convVars, saveVars, loopVars>>
    /\ UNCHANGED <<md5, lookup, video, exit, errorAt>>

\* save_cache, lines 93-97
SaveRead ==
    /\ UNCHANGED peer
    /\ pc = "save_read"
    /\ calls' = Called("save")
    /\ LET r == ReadCaches(cacheFile) IN
         IF r.ok
         THEN /\ caches' = r.value
              /\ pc' = "save_blob"
              /\ UNCHANGED <<exit, errorAt>>
         ELSE /\ exit' = "error"
              /\ errorAt' = "save_read"
              /\ pc' = "done"
              /\ UNCHANGED caches
    /\ UNCHANGED <<fsVars, playerVars, playVars, convVars, loopVars, uuid>>

\* a store that pickles every video into one file of a fixed name
SaveBlobFixedName ==
    /\ UNCHANGED peer
    /\ pc = "save_blob"
    /\ uuid' = 0
    /\ UNCHANGED nextUuid
    /\ blobs' = [u \in DOMAIN blobs \cup {0} |-> IF u = 0 THEN video ELSE blobs[u]]
    /\ caches' = Append(caches,
                    CacheEntry(VideoName(video_path), video_path, 0, audio_path))
    /\ pc' = "save_open"
    /\ UNCHANGED <<fileContent, cacheFile, audioFiles, hyperFile, sessions>>
    /\ UNCHANGED <<playerVars, playVars, convVars, loopVars, endVars>>

\* a store that appends the entry without writing the frame blob
SaveBlobUnwritten ==
    /\ UNCHANGED peer
    /\ pc = "save_blob"
    /\ uuid' = nextUuid
    /\ nextUuid' = nextUuid + 1
    /\ UNCHANGED blobs
    /\ caches' = Append(caches,
                    CacheEntry(VideoName(video_path), video_path, nextUuid, audio_path))
    /\ pc' = "save_open"
    /\ UNCHANGED <<fileContent, cacheFile, audioFiles, hyperFile, sessions>>
    /\ UNCHANGED <<playerVars, playVars, convVars, loopVars, endVars>>

\* save_cache, lines 98-105: the frame blob and the appended entry
SaveBlob ==
    /\ UNCHANGED peer
    /\ pc = "save_blob"
    /\ uuid' = nextUuid
    /\ nextUuid' = nextUuid + 1
    /\ blobs' = [u \in DOMAIN blobs \cup {nextUuid} |->
                    IF u = nextUuid THEN video ELSE blobs[u]]
    /\ caches' = Append(caches,
                    CacheEntry(VideoName(video_path), video_path, nextUuid, audio_path))
    /\ pc' = "save_open"
    /\ UNCHANGED <<fileContent, cacheFile, audioFiles, hyperFile, sessions>>
    /\ UNCHANGED <<playerVars, playVars, convVars, loopVars, endVars>>

\* save_cache, line 106: open(self.cache_config, "w") truncates the file
SaveOpen ==
    /\ UNCHANGED peer
    /\ pc = "save_open"
    /\ cacheFile' = [state |-> "empty", entries |-> <<>>]
    /\ pc' = "save_write"
    /\ UNCHANGED <<fileContent, blobs, audioFiles, hyperFile, nextUuid, sessions>>
    /\ UNCHANGED <<playerVars, playVars, convVars, saveVars, loopVars, endVars>>

\* a write that reads the index again and appends the session's entry to it
SaveWriteMerging ==
    /\ UNCHANGED peer
    /\ pc = "save_write"
    /\ cacheFile' = [state |-> "json",
                     entries |-> Append(cacheFile.entries, caches[Len(caches)])]
    /\ pc' = "adjust"
    /\ UNCHANGED <<fileContent, blobs, audioFiles, hyperFile, nextUuid, sessions>>
    /\ UNCHANGED <<playerVars, playVars, convVars, saveVars, loopVars, endVars>>

\* save_cache, line 107: f.write(json.dumps(caches, ...))
SaveWrite ==
    /\ UNCHANGED peer
    /\ pc = "save_write"
    /\ cacheFile' = [state |-> "json", entries |-> caches]
    /\ pc' = "adjust"
    /\ UNCHANGED <<fileContent, blobs, audioFiles, hyperFile, nextUuid, sessions>>
    /\ UNCHANGED <<playerVars, playVars, convVars, saveVars, loopVars, endVars>>

\* line 186 left out: playback starts under the font size found
AdjustSkipped ==
    /\ UNCHANGED peer
    /\ pc = "adjust"
    /\ pc' = "playsound"
    /\ UNCHANGED <<fsVars, playerVars, playVars, convVars, saveVars, loopVars, endVars>>

\* line 186
Adjust ==
    /\ UNCHANGED peer
    /\ pc = "adjust"
    /\ adjust_terminal_font_size(font_size)
    /\ calls' = Called("adjust")
    /\ pc' = "playsound"
    /\ UNCHANGED <<fileContent, cacheFile, blobs, audioFiles, nextUuid, sessions>>
    /\ UNCHANGED <<video_path, fps, font_size, backup_config, terminal_columns>>
    /\ UNCHANGED <<playVars, convVars, saveVars, loopVars, exit, errorAt>>

\* lines 188-193: the screen, start_time, delta and the audio
PlaySound ==
    /\ UNCHANGED peer
    /\ pc = "playsound"
    /\ start_time' = now
    /\ delta' = 0
    /\ overrun' = 0
    /\ frame_idx' = 0
    /\ calls' = Called("playsound")
    /\ pc' = "frame"
    /\ UNCHANGED <<fsVars, playerVars, playVars, convVars, saveVars>>
    /\ UNCHANGED <<now, slept, shown, dropped, exit, errorAt>>

\* a skip that forgets the drift instead of repaying one frame period
DropFrameResets ==
    /\ delta' = 0
    /\ start_time' = now
    /\ dropped' = dropped + 1
    /\ UNCHANGED <<now, slept, shown, overrun>>

\* lines 196-199: the frame is skipped
DropFrame ==
    /\ delta' = delta - SLEEP_PER_FRAME
    /\ start_time' = now
    /\ dropped' = dropped + 1
    /\ UNCHANGED <<now, slept, shown, overrun>>

\* a late frame whose delay replaces the drift instead of adding to it
RenderFrameAssigns(render) ==
    LET end_time == now + render
        est == SLEEP_PER_FRAME - (end_time - start_time)
        pause == IF est > 0 THEN est ELSE 0
    IN /\ shown' = Append(shown, video[frame_idx + 1])
       /\ delta' = IF est < 0 THEN 0 - est ELSE delta
       /\ overrun' = IF est < 0 THEN overrun + (0 - est) ELSE overrun
       /\ slept' = pause
       /\ now' = end_time + pause
       /\ start_time' = end_time + pause
       /\ UNCHANGED dropped

\* lines 200-206: the frame is shown; screen.update returns `render` ticks
\* after start_time
RenderFrame(render) ==
    LET end_time == now + render
        est == SLEEP_PER_FRAME - (end_time - start_time)
        pause == IF est > 0 THEN est ELSE 0
    IN /\ shown' = Append(shown, video[frame_idx + 1])
       /\ delta' = IF est < 0 THEN delta + (0 - est) ELSE delta
       /\ overrun' = IF est < 0 THEN overrun + (0 - est) ELSE overrun
       /\ slept' = pause
       /\ now' = end_time + pause
       /\ start_time' = end_time + pause
       /\ UNCHANGED dropped

\* an iteration that looks at the same frame again after a skip
PlayFrameRepeats ==
    /\ UNCHANGED peer
    /\ pc = "frame"
    /\ frame_idx < Len(video)
    /\ IF delta >= SLEEP_PER_FRAME
       THEN DropFrame /\ UNCHANGED frame_idx
       ELSE /\ frame_idx' = frame_idx + 1
            /\ \E render \in 0..MaxRender : RenderFrame(render)
    /\ UNCHANGED <<fsVars, playerVars, playVars, convVars, saveVars, endVars, pc>>

\* lines 194-206: one iteration of `for frame in video`
PlayFrame ==
    /\ UNCHANGED peer
    /\ pc = "frame"
    /\ frame_idx < Len(video)
    /\ frame_idx' = frame_idx + 1
    /\ IF delta >= SLEEP_PER_FRAME
       THEN DropFrame
       ELSE \E render \in 0..MaxRender : RenderFrame(render)
    /\ UNCHANGED <<fsVars, playerVars, playVars, convVars, saveVars, endVars, pc>>

\* the loop is exhausted, _play returns, lines 221-222: else: self.shutdown()
PlayReturn ==
    /\ UNCHANGED peer
    /\ pc = "frame"
    /\ frame_idx >= Len(video)
    /\ shutdown("normal")
    /\ UNCHANGED <<fileContent, cacheFile, blobs, audioFiles, nextUuid, sessions>>
    /\ UNCHANGED <<video_path, fps, font_size, backup_config, terminal_columns>>
    /\ UNCHANGED <<playVars, convVars, saveVars, loopVars, errorAt>>

\* lines 219-220: KeyboardInterrupt raised inside _play
Interrupt ==
    /\ UNCHANGED peer
    /\ pc \in PlayPcs
    /\ shutdown("interrupt")
    /\ UNCHANGED <<fileContent, cacheFile, blobs, audioFiles, nextUuid, sessions>>
    /\ UNCHANGED <<video_path, fps, font_size, backup_config, terminal_columns>>
    /\ UNCHANGED <<playVars, convVars, saveVars, loopVars, errorAt>>

\* any other exception raised inside _play leaves play() uncaught
Raise ==
    /\ UNCHANGED peer
    /\ pc \in ErrorPoints
    /\ exit' = "error"
    /\ errorAt' = pc
    /\ pc' = "done"
    /\ UNCHANGED <<fsVars, playerVars, playVars, convVars, saveVars, loopVars, calls>>

Next ==
    \/ \E p \in Paths, f \in FpsArgs, fs \in FontArgs : StartSession(p, f, fs)
    \/ \E p \in Paths, v \in MainVideos : WriteVideo(p, v)
    \/ LoadCache
    \/ MissAdjust
    \/ MissColumns
    \/ MissRestore
    \/ ConvertStart
    \/ GrabFrame
    \/ ExtractAudio
    \/ SaveRead
    \/ SaveBlob
    \/ SaveOpen
    \/ SaveWrite
    \/ Adjust
    \/ PlaySound
    \/ PlayFrame
    \/ PlayReturn
    \/ Interrupt
    \/ Raise

Spec == Init /\ [][Next]_vars

(***************************************************************************)
(* SpecTranscode: convert_to_ansi alone, on videos of MaxFrames frames at  *)
(* the rates of TranscodeRates, from the state in which _play calls it.    *)
(***************************************************************************)
InitTranscode ==
    /\ hyperFile = HyperConfig(DefaultFontSize - 1, " ")
    /\ \E r \in TranscodeRates :
         /\ fileContent = [p \in Paths |-> TranscodeVideo(r[1])]
         /\ PlayerIs([NewPlayer("./a.mp4", r[2], DefaultFontSize, hyperFile)
                        EXCEPT !.lookup = "miss",
                               !.md5 = Md5(TranscodeVideo(r[1])),
                               !.terminal_columns = TerminalColumns(DefaultFontSize),
                               !.config_saves = 2,
                               !.calls = [NoCalls EXCEPT !.adjust = 1, !.restore = 1]])
    /\ cacheFile = Missing
    /\ blobs = <<>>
    /\ audioFiles = {}
    /\ nextUuid = 1
    /\ sessions = 1
    /\ pc = "convert"
    /\ peer = NoPeer

NextTranscode ==
    \/ ConvertStart
    \/ GrabFrame

SpecTranscode == InitTranscode /\ [][NextTranscode]_vars

(***************************************************************************)
(* SpecPlayback: the playback loop alone, on cached videos of up to        *)
(* MaxPlayFrames frames, from the state in which _play reaches line 188.   *)
(***************************************************************************)
PlayVideo(n) == [id |-> 1, fps |-> TicksPerSecond, frames |-> n]

InitPlayback ==
    /\ hyperFile = HyperConfig(DefaultFontSize, " ")
    /\ \E n \in 0..MaxPlayFrames, f \in FpsArgs :
         /\ fileContent = [p \in Paths |-> PlayVideo(n)]
         /\ blobs = [u \in {2} |->
                        [j \in 1..n |->
                            image_to_ansi(PlayVideo(n), j - 1,
                                          TerminalColumns(DefaultFontSize))]]
         /\ PlayerIs([NewPlayer("./a.mp4", f, DefaultFontSize,
                                 HyperConfig(DefaultFontSize - 1, " "))
                        EXCEPT !.lookup = "hit",
                               !.md5 = Md5(PlayVideo(n)),
                               !.video = blobs[2],
                               !.audio_path = 1,
                               !.config = hyperFile,
                               !.config_saves = 1,
                               !.calls = [NoCalls EXCEPT !.adjust = 1]])
         /\ cacheFile = [state |-> "json",
                         entries |-> << [name |-> "a", video |-> 2, audio_path |-> 1,
                                         md5 |-> Md5(PlayVideo(n))] >>]
    /\ audioFiles = {1}
    /\ nextUuid = 3
    /\ sessions = 2
    /\ pc = "playsound"
    /\ peer = NoPeer

NextPlayback ==
    \/ PlaySound
    \/ PlayFrame
    \/ PlayReturn
    \/ Interrupt

SpecPlayback == InitPlayback /\ [][NextPlayback]_vars

\* the process keeps running: a step of _play that can be taken is taken;
\* a KeyboardInterrupt may or may not arrive
SpecPlaybackFair ==
    /\ SpecPlayback
    /\ WF_vars(PlaySound)
    /\ WF_vars(PlayFrame)
    /\ WF_vars(PlayReturn)

(***************************************************************************)
(* SpecAdopter: one HyperAdopter, built on a ~/.hyper.js of either format, *)
(* on which adjust_terminal_font_size and restore_terminal_font_size are   *)
(* called in any order (the script at the end of adopters.py).  font_size  *)
(* holds the argument of the last adjust call.                             *)
(***************************************************************************)
AdjustSizes == {DefaultFontSize - 1, DefaultFontSize, DefaultFontSize + 1}

InitAdopter ==
    /\ \E size \in AdjustSizes, sep \in Separators : hyperFile = HyperConfig(size, sep)
    /\ fileContent \in [Paths -> {PlayVideo(0)}]
    /\ cacheFile = Missing
    /\ blobs = <<>>
    /\ audioFiles = {}
    /\ nextUuid = 1
    /\ sessions = 0
    /\ pc = "adopter"
    /\ peer = NoPeer
    /\ PlayerIs(NewPlayer("./a.mp4", TicksPerSecond, DefaultFontSize, hyperFile))

AdopterCall ==
    /\ UNCHANGED peer
    /\ pc = "adopter"
    /\ calls.adjust + calls.restore < MaxAdopterCalls
    /\ UNCHANGED <<fileContent, cacheFile, blobs, audioFiles, nextUuid, sessions>>
    /\ UNCHANGED <<video_path, fps, backup_config, terminal_columns>>
    /\ UNCHANGED <<playVars, convVars, saveVars, loopVars, exit, errorAt, pc>>

\* hyper.adjust_terminal_font_size(size)
AdopterAdjust(size) ==
    /\ AdopterCall
    /\ font_size' = size
    /\ adjust_terminal_font_size(size)
    /\ calls' = Called("adjust")

\* hyper.restore_terminal_font_size()
AdopterRestore ==
    /\ AdopterCall
    /\ restore_terminal_font_size
    /\ calls' = Called("restore")
    /\ UNCHANGED font_size

NextAdopter ==
    \/ \E size \in AdjustSizes : AdopterAdjust(size)
    \/ AdopterRestore

SpecAdopter == InitAdopter /\ [][NextAdopter]_vars

(***************************************************************************)
(* SpecConcurrent: two play sessions of two processes on one ./cache and   *)
(* one ~/.hyper.js.  The first session runs the steps of _play one by one; *)
(* of the second, `peer`, the steps on cache.json are taken one by one as  *)
(* well (load_cache, and the read, the append, the open and the write of   *)
(* save_cache) and the steps between them are taken together.  The index   *)
(* may hold the entry of an earlier session on a third video.              *)
(***************************************************************************)
ThirdVideo == [id |-> 3, fps |-> 1, frames |-> 1]

PriorIndex ==
    << [name |-> "c", video |-> 1, audio_path |-> 2, md5 |-> Md5(ThirdVideo)] >>

InitConcurrent ==
    /\ fileContent \in [Paths -> MainVideos]
    /\ \E prior \in BOOLEAN :
         IF prior
         THEN /\ cacheFile = [state |-> "json", entries |-> PriorIndex]
              /\ blobs = << <<image_to_ansi(ThirdVideo, 0, TerminalColumns(DefaultFontSize))>> >>
              /\ audioFiles = {2}
              /\ nextUuid = 3
         ELSE /\ cacheFile = Missing
              /\ blobs = <<>>
              /\ audioFiles = {}
              /\ nextUuid = 1
    /\ hyperFile = HyperConfig(DefaultFontSize - 1, " ")
    /\ sessions = MaxSessions - 1
    /\ pc = "idle"
    /\ peer = NoPeer
    /\ PlayerIs(NewPlayer("./a.mp4", TicksPerSecond, DefaultFontSize, hyperFile))

\* the peer leaves the first session's Player alone
PeerStep ==
    UNCHANGED <<fileContent, sessions, playerVars, playVars, convVars, saveVars,
                loopVars, endVars, pc>>

\* cli.py: Player(source) and play() of the second process; the adopter
\* reads ~/.hyper.js
PeerStart(p) ==
    /\ peer.pc = "idle"
    /\ peer' = [peer EXCEPT !.pc = "load_cache", !.path = p,
                            !.backup_config = hyperFile]
    /\ PeerStep
    /\ UNCHANGED <<cacheFile, blobs, audioFiles, hyperFile, nextUuid>>

\* lines 170-173
PeerLoadCache ==
    /\ peer.pc = "load_cache"
    /\ LET digest == Md5(fileContent[peer.path])
           r == load_cache(digest, peer.path)
       IN peer' =
            CASE r.kind = "tuple" ->
                   [peer EXCEPT !.md5 = digest, !.lookup = "hit", !.pc = "play",
                                !.video = r.video, !.audio_path = r.audio_path]
              [] r.kind = "None" ->
                   [peer EXCEPT !.md5 = digest, !.lookup = "miss", !.pc = "convert"]
              [] OTHER ->
                   [peer EXCEPT !.md5 = digest, !.exit = "error", !.pc = "done"]
    /\ PeerStep
    /\ UNCHANGED <<cacheFile, blobs, audioFiles, hyperFile, nextUuid>>

\* lines 174-180: the terminal width under font_size, the restore of line
\* 177, convert_to_ansi and extract_audio
PeerConvert ==
    /\ peer.pc = "convert"
    /\ peer' = [peer EXCEPT
                   !.video = FullRun(fileContent[peer.path], TicksPerSecond,
                                     TerminalColumns(DefaultFontSize), 0, <<>>),
                   !.audio_path = nextUuid,
                   !.pc = "save_read"]
    /\ audioFiles' = audioFiles \cup {nextUuid}
    /\ nextUuid' = nextUuid + 1
    /\ hyperFile' = peer.backup_config
    /\ PeerStep
    /\ UNCHANGED <<cacheFile, blobs>>

\* save_cache, lines 93-97
PeerSaveRead ==
    /\ peer.pc = "save_read"
    /\ LET r == ReadCaches(cacheFile) IN
         peer' = IF r.ok
                 THEN [peer EXCEPT !.caches = r.value, !.pc = "save_blob"]
                 ELSE [peer EXCEPT !.exit = "error", !.pc = "done"]
    /\ PeerStep
    /\ UNCHANGED <<cacheFile, blobs, audioFiles, hyperFile, nextUuid>>

\* save_cache, lines 98-105
PeerSaveBlob ==
    /\ peer.pc = "save_blob"
    /\ peer' = [peer EXCEPT
                   !.uuid = nextUuid,
                   !.caches = Append(peer.caches,
                                 CacheEntry(VideoName(peer.path), peer.path,
                                            nextUuid, peer.audio_path)),
                   !.pc = "save_open"]
    /\ nextUuid' = nextUuid + 1
    /\ blobs' = [u \in DOMAIN blobs \cup {nextUuid} |->
                    IF u = nextUuid THEN peer.video ELSE blobs[u]]
    /\ PeerStep
    /\ UNCHANGED <<cacheFile, audioFiles, hyperFile>>

\* save_cache, line 106
PeerSaveOpen ==
    /\ peer.pc = "save_open"
    /\ cacheFile' = [state |-> "empty", entries |-> <<>>]
    /\ peer' = [peer EXCEPT !.pc = "save_write"]
    /\ PeerStep
    /\ UNCHANGED <<blobs, audioFiles, hyperFile, nextUuid>>

\* save_cache, line 107
PeerSaveWrite ==
    /\ peer.pc = "save_write"
    /\ cacheFile' = [state |-> "json", entries |-> peer.caches]
    /\ peer' = [peer EXCEPT !.pc = "play"]
    /\ PeerStep
    /\ UNCHANGED <<blobs, audioFiles, hyperFile, nextUuid>>

\* lines 186-206 and 221-222: playback to the end and shutdown()
PeerPlay ==
    /\ peer.pc = "play"
    /\ peer' = [peer EXCEPT !.pc = "done", !.exit = "normal"]
    /\ hyperFile' = peer.backup_config
    /\ PeerStep
    /\ UNCHANGED <<cacheFile, blobs, audioFiles, nextUuid>>

NextConcurrent ==
    \/ \E p \in Paths, f \in FpsArgs, fs \in FontArgs : StartSession(p, f, fs)
    \/ LoadCache
    \/ MissAdjust
    \/ MissColumns
    \/ MissRestore
    \/ ConvertStart
    \/ GrabFrame
    \/ ExtractAudio
    \/ SaveRead
    \/ SaveBlob
    \/ SaveOpen
    \/ SaveWrite
    \/ Adjust
    \/ PlaySound
    \/ PlayFrame
    \/ PlayReturn
    \/ \E p \in Paths : PeerStart(p)
    \/ PeerLoadCache
    \/ PeerConvert
    \/ PeerSaveRead
    \/ PeerSaveBlob
    \/ PeerSaveOpen
    \/ PeerSaveWrite
    \/ PeerPlay

SpecConcurrent == InitConcurrent /\ [][NextConcurrent]_vars

(***************************************************************************)
(* Properties.                                                             *)
(***************************************************************************)
\* the entries of the cache index as a reader parses them
IndexEntries == IF cacheFile.state = "json" THEN cacheFile.entries ELSE <<>>

\* the positions of the index entries whose md5 is the digest
Matches(digest) == {k \in 1..Len(IndexEntries) : IndexEntries[k].md5 = digest}

FirstMatch(digest) == CHOOSE k \in Matches(digest) : \A j \in Matches(digest) : k <= j

Range(seq) == {seq[j] : j \in 1..Len(seq)}

\* the steps of _play after line 177
AfterMissRestore == PlayPcs \ {"load_cache", "miss_adjust", "miss_columns", "miss_restore"}

\* play() returns through shutdown(): normal completion or KeyboardInterrupt
PlayEnds == exit = "none" /\ exit' \in {"normal", "interrupt"}

\* C1 as stated: in every play session that ends by normal completion or by
\* an interruption, restore_terminal_font_size has been invoked exactly once,
\* on the cache-hit path and on the cache-miss path alike.
C1_RestoredExactlyOnce ==
    exit \in {"normal", "interrupt"} => calls.restore = 1

\* C1 amended: when play() ends by normal completion or by an interruption,
\* shutdown() invokes restore_terminal_font_size exactly once, as the last
\* step of the session; before it the session has invoked it once (line 177)
\* if it took the cache-miss path beyond line 177, and never otherwise.
C1_RestoreCalls ==
    [][PlayEnds =>
          /\ calls'.restore = calls.restore + 1
          /\ calls.restore =
                IF lookup = "miss" /\ pc \in AfterMissRestore THEN 1 ELSE 0
          /\ hyperFile' = backup_config
          /\ pc' = "done"]_vars

C1_Witness ==
    /\ exit = "interrupt"
    /\ lookup = "miss"
    /\ calls.restore = 2
    /\ calls.convert = 1

\* C2 as stated: after play() has exited by any path (normal completion,
\* interruption, or an error raised in _play) the terminal font configuration
\* is the one captured at session start.
C2_FontRestoredOnEveryExit ==
    exit # "none" => hyperFile = backup_config

\* C3: a session whose checksum equals the md5 of an entry of the cache index
\* hits; it plays the frames and the audio path of the first matching entry and
\* never invokes the transcoder, the audio extractor or the cache store.
C3_CacheHit ==
    /\ lookup = "hit" =>
          /\ Matches(md5) # {}
          /\ video = blobs[IndexEntries[FirstMatch(md5)].video]
          /\ audio_path = IndexEntries[FirstMatch(md5)].audio_path
          /\ calls.convert = 0 /\ calls.extract = 0 /\ calls.save = 0
          /\ Range(shown) \subseteq Range(video)
    /\ (lookup = "miss" /\ pc \in PlayPcs \ {"save_write", "adjust", "playsound", "frame"})
          => Matches(md5) = {}

\* a hit on content cached under another name, played to the end
C3_Witness ==
    /\ lookup = "hit"
    /\ exit = "normal"
    /\ shown # <<>>
    /\ IndexEntries[FirstMatch(md5)].name # VideoName(video_path)

\* the store of a cache-miss session is complete
Stored == lookup = "miss" /\ (pc \in {"adjust", "playsound", "frame"} \/ exit = "normal")

\* C4: a session whose checksum matches no index entry misses, runs the
\* transcoder once and stores the result under that checksum: a lookup with
\* the same checksum then returns exactly the frames and audio path stored.
C4_StoreThenLookup ==
    /\ lookup = "hit" => Matches(md5) # {}
    /\ Stored =>
          /\ calls.convert = 1 /\ calls.extract = 1 /\ calls.save = 1
          /\ video = result
          /\ audio_path \in audioFiles
          /\ Matches(md5) = {Len(IndexEntries)}
          /\ load_cache(md5, video_path) =
                [kind |-> "tuple", video |-> video, audio_path |-> audio_path]

\* a changed file under a path that was cached before is transcoded and stored
C4_Witness ==
    /\ Stored
    /\ pc = "frame"
    /\ Len(IndexEntries) = 2
    /\ IndexEntries[1].name = VideoName(video_path)
    /\ IndexEntries[1].md5 # md5

\* C5 as stated: load_cache on a missing and on a corrupt (empty) index file
\* returns None; the lookup never raises and never ends the session in error.
C5_ColdCacheNeverRaises ==
    ~ /\ cacheFile.state \in {"missing", "empty"}
      /\ md5 # <<>>
      /\ exit = "error"
      /\ errorAt = "load_cache"

\* C6: a store leaves the index equal to the entries it held before the
\* store, unchanged and in order, followed by exactly one new entry; from a
\* missing index file the store creates an index of exactly one entry.
C6_StoreAppends ==
    [][/\ (pc = "save_open" /\ pc' = "save_write") =>
             /\ Len(caches) = Len(IndexEntries) + 1
             /\ SubSeq(caches, 1, Len(IndexEntries)) = IndexEntries
             /\ cacheFile.state = "missing" => Len(caches) = 1
       /\ (pc \in {"save_open", "save_write"} /\ pc' \in PlayPcs) => caches' = caches
       /\ (pc = "save_write" /\ pc' = "adjust") =>
             cacheFile' = [state |-> "json", entries |-> caches]]_vars

\* a second store has appended to an index that held an entry
C6_Witness ==
    /\ Stored
    /\ pc = "adjust"
    /\ Len(IndexEntries) = 2
    /\ IndexEntries[2].video = uuid

\* C7: whatever sessions have run one after another, completed or interrupted,
\* no two entries of the cache index have the same md5.
C7_OneEntryPerChecksum ==
    \A j, k \in 1..Len(IndexEntries) :
        j # k => IndexEntries[j].md5 # IndexEntries[k].md5

\* two sessions have stored, the second after a hit-free lookup
C7_Witness ==
    /\ sessions = 2
    /\ exit = "normal"
    /\ Len(IndexEntries) = 2

\* floor(i * fpsOut / fpsIn)
ExactDue(i) == (i * fps) \div fileContent[video_path].fps

RetainedIndices == {result[k].index : k \in 1..Len(result)}

\* the last input frame convert_to_ansi has decided on
LastDecided == IF convStop = "retrieve" THEN index_in - 1 ELSE index_in

\* C8 as stated: input frame i is retained exactly when floor(i * fpsOut /
\* fpsIn) exceeds the index of the last retained output frame; the retained
\* indices increase strictly and the k-th retained frame is the first input
\* frame whose due value is k; 30 fps to 2 fps over 90 frames retains
\* {0, 15, 30, 45, 60, 75}.
C8_ExactDecimation ==
    pc \in {"grab", "extract_audio"} =>
        /\ \A i \in 0..LastDecided :
              i \in RetainedIndices <=>
                 ExactDue(i) > Cardinality({j \in RetainedIndices : j < i}) - 1
        /\ \A k \in 1..Len(result) :
              /\ ExactDue(result[k].index) = k - 1
              /\ \A i \in 0..(result[k].index - 1) : ExactDue(i) < k - 1
        /\ \A k \in 1..(Len(result) - 1) : result[k].index < result[k + 1].index
        /\ (fileContent[video_path].fps = 30 /\ fps = 2 /\ index_in = 89) =>
              RetainedIndices = {0, 15, 30, 45, 60, 75}

\* C9: when grab() or retrieve() fails on some input frame, convert_to_ansi
\* stops without raising and returns the frames retained before that frame,
\* a prefix of the failure-free result; the session stores and plays them.
C9_PartialResult ==
    convStop \in {"grab", "retrieve"} =>
        /\ errorAt \notin {"convert", "grab"}
        /\ pc # "grab"
        /\ video = result
        /\ pc \in PlayPcs =>
              LET full == FullRun(fileContent[video_path], fps, terminal_columns, 0, <<>>)
                  stop == IF convStop = "grab" THEN index_in + 1 ELSE index_in
                  Before(frame) == frame.index < stop
              IN /\ video = SelectSeq(full, Before)
                 /\ Len(video) <= Len(full)
                 /\ video = SubSeq(full, 1, Len(video))
        /\ Stored =>
              /\ blobs[uuid] = video
              /\ IndexEntries[Len(IndexEntries)].video = uuid
              /\ Range(shown) \subseteq Range(video)

\* retrieve() failed on the second retained frame; the one frame retained
\* before it was stored and played
C9_Witness ==
    /\ convStop = "retrieve"
    /\ Len(video) = 1
    /\ Stored
    /\ exit = "normal"
    /\ shown = video

\* one iteration of the playback loop
FrameStep == pc = "frame" /\ frame_idx' = frame_idx + 1

\* C10: in the playback loop the drift is never negative and no sleep is
\* negative; a frame is dropped exactly when the drift at the top of its
\* iteration is at least one frame period, and a drop lowers the drift by
\* exactly one frame period, takes the clock as the next frame's start time
\* and shows, sleeps and plays nothing.
C10_Drift ==
    /\ [](delta >= 0 /\ slept >= 0)
    /\ [][FrameStep =>
            /\ dropped' \in {dropped, dropped + 1}
            /\ dropped' = dropped + 1 <=> delta >= SLEEP_PER_FRAME
            /\ dropped' = dropped + 1 =>
                  /\ delta' = delta - SLEEP_PER_FRAME
                  /\ start_time' = now'
                  /\ UNCHANGED <<shown, slept, now, calls, video, audio_path>>
                  /\ UNCHANGED <<config, hyperFile, pc>>
            /\ dropped' = dropped => Len(shown') = Len(shown) + 1]_vars

\* a slow frame was followed by two dropped frames and a frame shown
C10_Witness ==
    /\ pc = "frame"
    /\ dropped = 2
    /\ Len(shown) >= 2
    /\ delta = 0

\* the states of a play session: 0 Idle (up to line 186), 1 FontAdjusted,
\* 2 Playing (the frame loop), 3 Done (after shutdown(), or after an error)
Phase ==
    CASE pc = "playsound" -> 1
      [] pc = "frame" -> 2
      [] pc = "done" -> 3
      [] OTHER -> 0

RestoreCall == calls'.restore = calls.restore + 1
AdjustCall == calls'.adjust = calls.adjust + 1

\* C12: restore_terminal_font_size writes to ~/.hyper.js, and keeps as the
\* adopter's text, exactly the text the adopter read when it was built,
\* whatever adjust calls came before; the backup never changes, so a restore
\* that follows a restore leaves the same text again.
C12_RestoreWritesBackup ==
    /\ []((calls.adjust = 0 /\ calls.restore = 0) => backup_config = hyperFile)
    /\ [][backup_config' = backup_config]_vars
    /\ [][RestoreCall =>
            /\ hyperFile' = backup_config
            /\ config' = backup_config
            /\ config_saves' = config_saves + 1
            /\ (hyperFile = backup_config /\ config = backup_config) =>
                  UNCHANGED <<hyperFile, config>>]_vars

\* two adjust calls that each changed the file, undone by one restore
C12_Witness ==
    /\ pc = "adopter"
    /\ calls.adjust = 2
    /\ calls.restore = 1
    /\ config_saves = 3
    /\ font_size # current_font_size(backup_config)
    /\ hyperFile = backup_config

\* C13 as stated: adjust_terminal_font_size called with the current font
\* size changes neither the adopter's text nor the file and saves nothing;
\* called with another size it saves a text whose font size is the size
\* requested.
C13_AdjustSetsSize ==
    [][AdjustCall =>
          IF current_font_size(config) = font_size'
          THEN UNCHANGED <<config, hyperFile, config_saves>>
          ELSE /\ current_font_size(config') = font_size'
               /\ hyperFile' = config'
               /\ config_saves' = config_saves + 1]_vars

\* the first session reads cache.json in load_cache; so does the peer
LookupReads == pc = "load_cache" /\ pc' # "load_cache"
PeerLookupReads == peer.pc = "load_cache" /\ peer'.pc # "load_cache"

\* the cache-miss peer has completed its store
PeerStored == peer.lookup = "miss" /\ peer.pc \in {"play", "done"}

\* C14 as stated: while a session rewrites the cache index, the lookup of any
\* other session never reads a truncated or partly written cache.json: the
\* file it reads is missing or holds a complete index, and the lookup does
\* not fail.
C14_ReadsSeeCompleteIndex ==
    [][/\ LookupReads =>
             /\ cacheFile.state \in {"missing", "json"}
             /\ exit' # "error"
       /\ PeerLookupReads =>
             /\ cacheFile.state \in {"missing", "json"}
             /\ peer'.exit # "error"]_vars

\* the entry a session's store appended
OwnEntry == caches[Len(caches)]
PeerEntry == peer.caches[Len(peer.caches)]

\* C17: nothing in save_cache locks the index or reads it again. When two
\* concurrent cache-miss sessions on different checksums have both stored,
\* the index is the list of the session that wrote last, the entries that
\* session read followed by its own; if both read the same index, the entry
\* of the session that wrote first is lost.
C17_LostUpdate ==
    (Stored /\ PeerStored /\ md5 # peer.md5) =>
        /\ cacheFile.state = "json"
        /\ IndexEntries \in {caches, peer.caches}
        /\ Len(caches) = Len(peer.caches) =>
              ~ (OwnEntry \in Range(IndexEntries) /\ PeerEntry \in Range(IndexEntries))
        /\ Len(caches) < Len(peer.caches) => IndexEntries = peer.caches
        /\ Len(peer.caches) < Len(caches) => IndexEntries = caches

\* both sessions stored after an earlier one; the index holds the earlier
\* entry and the peer's, and the first session's entry is lost
C17_Witness ==
    /\ Stored /\ PeerStored
    /\ md5 # peer.md5
    /\ exit = "normal" /\ peer.exit = "normal"
    /\ Len(IndexEntries) = 2
    /\ IndexEntries[1] = PriorIndex[1]
    /\ IndexEntries[2] = PeerEntry
    /\ OwnEntry \notin Range(IndexEntries)
    /\ uuid \in DOMAIN blobs

\* C15: at every point of the playback loop the overrun accumulated so far
\* is the drift plus one frame period for every frame dropped; a frame is
\* shown only while the drift is below one frame period, when the number of
\* frames dropped is floor(overrun / frame period); a drift of at least one
\* frame period makes the next frame a dropped one, which repays one period.
C15_OverrunRepaid ==
    /\ [](overrun = delta + dropped * SLEEP_PER_FRAME)
    /\ [][FrameStep =>
            /\ Len(shown') = Len(shown) + 1 =>
                  /\ delta < SLEEP_PER_FRAME
                  /\ dropped = overrun \div SLEEP_PER_FRAME
                  /\ delta' >= delta
            /\ delta >= SLEEP_PER_FRAME =>
                  /\ dropped' = dropped + 1
                  /\ delta' = delta - SLEEP_PER_FRAME
                  /\ UNCHANGED <<shown, overrun>>]_vars

\* frames 1 to 3 ran late by one frame period in all, frame 4 was dropped
\* and frame 5 shown with the drift repaid
C15_Witness ==
    /\ pc = "frame"
    /\ SLEEP_PER_FRAME = 2
    /\ frame_idx = 5
    /\ dropped = 1
    /\ Len(shown) = 4
    /\ shown[3].index = 2
    /\ shown[4].index = 4
    /\ overrun = SLEEP_PER_FRAME
    /\ delta = 0

\* C16: the playback loop ends, the session reaching Done, for every frame
\* sequence and every pattern of render delays; it visits the frames once
\* each in increasing order, showing or dropping each: the frame index never
\* decreases, moves by one, never exceeds len(video), and the frames shown
\* and dropped add up to the frames visited, all of them on normal completion.
C16_LoopTerminates ==
    /\ <>(pc = "done")
    /\ [](/\ frame_idx <= Len(video)
          /\ Len(shown) + dropped = frame_idx
          /\ \A j \in 1..Len(shown) :
                /\ shown[j] \in Range(video)
                /\ \A k \in 1..(j - 1) : shown[k].index < shown[j].index
          /\ exit = "normal" => frame_idx = Len(video))
    /\ [][/\ frame_idx' \in {frame_idx, frame_idx + 1}
          /\ frame_idx' = frame_idx + 1 =>
                \/ dropped' = dropped + 1 /\ shown' = shown
                \/ dropped' = dropped /\ shown' = Append(shown, video[frame_idx + 1])]_vars

\* a video of five frames played to the end, some frames dropped
C16_Witness ==
    /\ exit = "normal"
    /\ Len(video) >= 5
    /\ frame_idx = Len(video)
    /\ dropped >= 2
    /\ Len(shown) >= 2

\* C18 as stated: convert_to_ansi emits at most one output frame per input
\* frame, so the output is never longer than the input read; after each
\* input frame the output index is at most floor(i * fpsOut / fpsIn); and
\* with fpsOut >= fpsIn every input frame is retained exactly once, in order.
C18_OutputWithinInput ==
    pc \in {"grab", "extract_audio"} =>
        /\ Len(result) <= index_in + 1
        /\ index_out = Len(result) - 1
        /\ index_out <= ExactDue(index_in)
        /\ fps >= fileContent[video_path].fps =>
              /\ Len(result) = LastDecided + 1
              /\ \A k \in 1..Len(result) : result[k].index = k - 1

\* C19: the cache is keyed by the checksum alone.  On a hit the frames of
\* the session are the blob of the first index entry with the file's md5,
\* whatever fps and font_size the play call was given: these arguments reach
\* neither the transcoder nor the terminal-width measurement, only the frame
\* period and the font adjustment of line 186; a stored blob is never
\* rewritten and an index entry never changes, so every play of the same
\* content shows frames of the same sequence.
C19_HitIgnoresArguments ==
    /\ [](lookup = "hit" =>
            /\ video = blobs[IndexEntries[FirstMatch(md5)].video]
            /\ calls.convert = 0
            /\ index_in = -1
            /\ terminal_columns = 0
            /\ pc \in {"playsound", "frame"} => current_font_size(config) = font_size)
    /\ [][/\ \A u \in DOMAIN blobs : u \in DOMAIN blobs' /\ blobs'[u] = blobs[u]
          /\ cacheFile'.state = "json" =>
                \A k \in 1..Len(IndexEntries) :
                    /\ k <= Len(cacheFile'.entries)
                    /\ cacheFile'.entries[k] = IndexEntries[k]
          /\ (FrameStep /\ lookup = "hit" /\ dropped' = dropped) =>
                shown' = Append(shown, video[frame_idx + 1])]_vars

\* a hit played to the end at an fps other than the one of the stored
\* transcode: the frames shown are the stored ones, not those this fps gives
C19_Witness ==
    /\ lookup = "hit"
    /\ exit = "normal"
    /\ video # <<>>
    /\ shown = video
    /\ video # FullRun(fileContent[video_path], fps,
                       TerminalColumns(DefaultFontSize), 0, <<>>)
    /\ \E f \in FpsArgs \ {fps} :
          video = FullRun(fileContent[video_path], f,
                          TerminalColumns(DefaultFontSize), 0, <<>>)

\* the steps of _play before save_cache opens the index for writing
BeforeIndexRewrite == PlayPcs \ {"save_write", "adjust", "playsound", "frame"}

\* C20: on the cache-miss path the transcode, the audio extraction and the
\* frame blob come before the index rewrite, so every entry of the index
\* refers to a frame blob and an audio file that exist; the index changes
\* only in the rewrite, and a KeyboardInterrupt at any step before the
\* rewrite leaves the index as it was, with no entry for the session's md5.
C20_EntryAfterFiles ==
    /\ [](\A k \in 1..Len(IndexEntries) :
             /\ IndexEntries[k].video \in DOMAIN blobs
             /\ IndexEntries[k].audio_path \in audioFiles)
    /\ [](pc \in {"save_read", "save_blob", "save_open", "save_write"} =>
             /\ calls.convert = 1 /\ calls.extract = 1
             /\ video = result
             /\ audio_path \in audioFiles)
    /\ [](pc \in {"save_open", "save_write"} =>
             /\ uuid \in DOMAIN blobs
             /\ blobs[uuid] = video
             /\ caches[Len(caches)].video = uuid
             /\ caches[Len(caches)].audio_path = audio_path)
    /\ [][/\ cacheFile' # cacheFile => pc \in {"save_open", "save_write"}
          /\ (exit = "none" /\ exit' = "interrupt" /\ pc \in BeforeIndexRewrite) =>
                /\ cacheFile' = cacheFile
                /\ lookup = "miss" => Matches(md5) = {}]_vars

\* a session interrupted after the frame blob was written and before the
\* index was opened for writing: the blob is on disk, the index has no entry
C20_Witness ==
    /\ exit = "interrupt"
    /\ lookup = "miss"
    /\ calls.save = 1
    /\ uuid \in DOMAIN blobs
    /\ audio_path \in audioFiles
    /\ cacheFile = Missing

====
